---- MODULE Spec2Model ----
(***************************************************************************)
(* A model of the Activation layer and the TimeDistributed wrapper layer   *)
(* of keras-js: the layers' fields, the tensors they allocate, the host    *)
(* buffers and device textures behind the tensors, and every backend       *)
(* invocation a call makes.                                                *)
(*                                                                         *)
(* Tensors, buffers and textures are heap objects named by their index in  *)
(* the sequences tensors, buffers and textures; 0 is JavaScript's          *)
(* undefined.  A call is one action: the operators below thread a record   *)
(* S of the whole program state through the statements of the handler, in  *)
(* the order of the source.  S.err is the exception a statement threw; the *)
(* statements after a throw do not run.                                    *)
(***************************************************************************)
EXTENDS Integers, Sequences, FiniteSets, TLC

VARIABLES
    tensors,    \* heap of Tensor objects
    buffers,    \* heap of host typed arrays (the data of an ndarray)
    textures,   \* device allocations (WebGL textures)
    act,        \* the Activation instance (the layer itself, or the wrapper's wrappedLayer)
    td,         \* the TimeDistributed instance
    log,        \* the backend invocations and inner-layer invocations of the last call
    err,        \* the exception the last constructor or call threw ("" when none)
    phase,      \* "none" (nothing constructed), "Activation", "TimeDistributed", "failed"
    config,     \* the attributes the constructor was given
    calls,      \* number of calls made to the constructed layer
    x,          \* the input tensor of the last call (0 before the first)
    ret,        \* the tensor the last call returned (0 when none or when it threw)
    pre,        \* the program state at the start of the last call
    shapes      \* the logical input shapes of the calls made before the last one

vars == <<tensors, buffers, textures, act, td, log, err, phase, config, calls, x, ret, pre,
          shapes>>

\* Bounds of the model.
MaxT == 3
MaxCalls == 2

----------------------------------------------------------------------------
\* Shapes and flat row-major data.

RECURSIVE Prod(_)
Prod(s) == IF s = <<>> THEN 1 ELSE Head(s) * Prod(Tail(s))

Zeros(n) == [i \in 1..n |-> 0]

Fill(n, v) == [i \in 1..n |-> v]

CeilSqrt(n) == CHOOSE k \in 0..n : k * k >= n /\ (k = 0 \/ (k - 1) * (k - 1) < n)

\* The cells of x.pick(t, null, ..., null) in a buffer of shape `shape`.
Pick(data, shape, t) ==
    LET n == Prod(Tail(shape)) IN SubSeq(data, t * n + 1, (t + 1) * n)

\* ops.assign(target.pick(t, null, ...), src): the buffer with slice t overwritten.
AssignPick(data, shape, t, src) ==
    LET n == Prod(Tail(shape))
    IN [i \in 1..Len(data) |->
          IF i > t * n /\ i <= (t + 1) * n /\ i - t * n <= Len(src)
          THEN src[i - t * n] ELSE data[i]]

\* The undefined indicesForReshaped.
NoIndices == [shape |-> <<>>, row |-> <<>>, col |-> <<>>]

----------------------------------------------------------------------------
\* The elementwise function catalog and the device program sources.

\* import * as activations: the names the catalog defines.
Catalog == {"linear", "relu"}

\* A name the catalog does not define.
Unknown == {"bogus"}

\* activations[name]: undefined for a name outside the catalog.
ActivationFunc(name) == IF name \in Catalog THEN name ELSE "undefined"

\* The elementwise functions.
ApplyFunc(name, v) == IF name = "relu" THEN (IF v < 0 THEN 0 ELSE v) ELSE v

----------------------------------------------------------------------------
\* The program state threaded through a handler.  Every statement is an
\* operator from the state before it to the state after it, and leaves a
\* state that holds an exception as it is.

State == [tensors |-> tensors, buffers |-> buffers, textures |-> textures,
          act |-> act, td |-> td, log |-> log, err |-> err]

Ok(S) == S.err = ""

Throw(S, e) == IF Ok(S) THEN [S EXCEPT !.err = e] ELSE S

\* A log entry: the operation, the class of the layer that issued it, the
\* program run, the output tensor and its texture, the input textures, and the
\* timestep the wrapper was at (-1 outside the wrapper's loop).
Entry(op, layer, program, output, texture, inputs, t) ==
    [op |-> op, layer |-> layer, program |-> program, output |-> output,
     texture |-> texture, inputs |-> inputs, t |-> t]

----------------------------------------------------------------------------
\* Tensor.

\* new arrayType(data): a typed array of its own holding a copy of `content`.
\* The new array is buffers[Len(buffers)].
ArrayNew(S, content) == [S EXCEPT !.buffers = Append(@, content)]

\* new Tensor(data, shape, {type}): data = 0 is the empty array [], and the
\* tensor gets a buffer of zeros; a typed array given as data is used as it is.
\* The new tensor is tensors[Len(tensors)].
Tensor_new(S, data, shape, type) ==
    [S EXCEPT !.buffers = IF data = 0 THEN Append(@, Zeros(Prod(shape))) ELSE @,
              !.tensors = Append(@,
                 [shape |-> shape,
                  data |-> IF data = 0 THEN Len(S.buffers) + 1 ELSE data,
                  arrayType |-> type,
                  glTexture |-> 0, glTextureShape |-> <<>>,
                  is1D |-> FALSE, is2DReshaped |-> FALSE,
                  originalShape |-> <<>>, indicesForReshaped |-> NoIndices])]

\* The tensor and the array the next new Tensor and new arrayType create.
NextTensor(S) == Len(S.tensors) + 1

NextArray(S) == Len(S.buffers) + 1

Data(S, id) == S.buffers[S.tensors[id].data]

\* ops.assign on the buffer of tensor id.
Assign(S, id, content) == [S EXCEPT !.buffers[S.tensors[id].data] = content]

\* The logical shape of a tensor: originalShape when it is square-reshaped.
LogicalShape(tn) == IF tn.is2DReshaped THEN tn.originalShape ELSE tn.shape

\* The index map reshapeTo2DSquare records for a tensor of `shape`.
SquareIndices(shape) ==
    [shape |-> shape,
     row |-> [i \in 1..Prod(shape) |-> (i - 1) \div CeilSqrt(Prod(shape))],
     col |-> [i \in 1..Prod(shape) |-> (i - 1) % CeilSqrt(Prod(shape))]]

\* The data of a tensor of n cells in a side x side buffer padded with zeros.
SquareData(data, n, side) == [i \in 1..(side * side) |-> IF i <= n THEN data[i] ELSE 0]

\* reshapeTo2DSquare(): the data, row-major, in the first cells of a new
\* side x side buffer padded with zeros; originalShape and the index map of
\* every original coordinate are recorded.
reshapeTo2DSquare(S, id) ==
    IF ~Ok(S) THEN S
    ELSE LET tn == S.tensors[id]
             side == CeilSqrt(Prod(tn.shape))
         IN [S EXCEPT !.buffers = Append(@, SquareData(Data(S, id), Prod(tn.shape), side)),
                      !.tensors[id] =
                          [tn EXCEPT !.shape = <<side, side>>,
                                     !.data = NextArray(S),
                                     !.originalShape = tn.shape,
                                     !.is2DReshaped = TRUE,
                                     !.indicesForReshaped = SquareIndices(tn.shape)]]

\* reshapeFrom2DSquare(): the first product(originalShape) cells, as a new
\* buffer of the original shape.
reshapeFrom2DSquare(S, id) ==
    IF ~Ok(S) THEN S
    ELSE IF S.tensors[id].originalShape = <<>>
         THEN Throw(S, "Error: Tensor does not contain originalShape")
         ELSE [S EXCEPT !.buffers = Append(@, SubSeq(Data(S, id), 1,
                                                      Prod(S.tensors[id].originalShape))),
                        !.tensors[id].shape = S.tensors[id].originalShape,
                        !.tensors[id].data = NextArray(S)]

\* reshapeFrom2D(): the inverse of the reshape the tensor's is2DReshaped records.
reshapeFrom2D(S, id) == reshapeFrom2DSquare(S, id)

\* The shape of the texture of a tensor of `shape`: 1 x n for a 1D tensor.
TextureShape(shape) == IF Len(shape) = 1 THEN <<1, shape[1]>> ELSE shape

\* createGLTexture(type, format): a device allocation mirroring the buffer.
\* A 1D tensor is marked is1D.
createGLTexture(S, id, format, layer) ==
    IF ~Ok(S) THEN S
    ELSE IF Len(S.tensors[id].shape) \notin {1, 2}
         THEN Throw(S, "Error: no texture for a tensor of this rank")
         ELSE [S EXCEPT !.textures = Append(@, [shape |-> TextureShape(S.tensors[id].shape),
                                                data |-> Data(S, id),
                                                format |-> format]),
                        !.tensors[id].glTexture = Len(S.textures) + 1,
                        !.tensors[id].glTextureShape = TextureShape(S.tensors[id].shape),
                        !.tensors[id].is1D = (Len(S.tensors[id].shape) = 1),
                        !.log = Append(@, Entry("createGLTexture", layer, "", id,
                                                Len(S.textures) + 1, <<>>, -1))]

\* transferFromGLTexture(): the texture's content read into a new buffer of
\* the texture's shape (of shape [n] for a 1D tensor).
transferFromGLTexture(S, id, layer) ==
    IF ~Ok(S) THEN S
    ELSE LET tn == S.tensors[id]
         IN [S EXCEPT !.buffers = Append(@, S.textures[tn.glTexture].data),
                      !.tensors[id].data = NextArray(S),
                      !.tensors[id].shape =
                          IF tn.is1D THEN <<tn.glTextureShape[2]>> ELSE tn.glTextureShape,
                      !.log = Append(@, Entry("transferFromGLTexture", layer, "", id,
                                              tn.glTexture, <<>>, -1))]

----------------------------------------------------------------------------
\* The compute backend (webgl2).

\* texelFetch: texel (r, c) of texture h, 0 outside the texture.
Fetch(S, h, r, c) ==
    IF h = 0 THEN 0
    ELSE IF r >= 0 /\ r < S.textures[h].shape[1] /\ c >= 0 /\ c < S.textures[h].shape[2]
         THEN S.textures[h].data[r * S.textures[h].shape[2] + c + 1]
         ELSE 0

\* What a program writes at texel (r, c) of its output.
Texel(S, program, in, t, r, c) ==
    CASE program = "selectSlice" -> Fetch(S, in[1], t, c)
      [] program = "mapInput" ->
            Fetch(S, in[1], Fetch(S, in[2], r, c), Fetch(S, in[3], r, c))
      [] program = "copyTexture" -> Fetch(S, in[1], r, c)
      [] program = "copySliceOutput" ->
            IF r = t THEN Fetch(S, in[2], 0, c) ELSE Fetch(S, in[1], r, c)
      [] program = "mapSliceOutput" ->
            IF Fetch(S, in[3], r, c) # -1 /\ Fetch(S, in[4], r, c) # -1
            THEN Fetch(S, in[2], Fetch(S, in[3], r, c), Fetch(S, in[4], r, c))
            ELSE Fetch(S, in[1], r, c)
      [] OTHER -> ApplyFunc(program, Fetch(S, in[1], r, c))

\* webgl2.compileProgram(require(source)): the program's handle is its name.
compileProgram(S, source, layer) ==
    IF ~Ok(S) THEN S
    ELSE [S EXCEPT !.log = Append(@, Entry("compileProgram", layer, source, 0, 0, <<>>, -1))]

\* webgl2.runProgram({program, output, inputs, uniforms}): every texel of the
\* output tensor's texture is written from the input textures.
runProgram(S, program, output, in, t, layer) ==
    IF ~Ok(S) THEN S
    ELSE LET h == S.tensors[output].glTexture
             cols == S.textures[h].shape[2]
         IN [S EXCEPT !.textures[h].data =
                          [k \in 1..Len(@) |->
                              Texel(S, program, in, t, (k - 1) \div cols, (k - 1) % cols)],
                      !.log = Append(@, Entry("runProgram", layer, program, output, h, in, t))]

----------------------------------------------------------------------------
\* Activation.

NoActivation ==
    [exists |-> FALSE, layerClass |-> "Activation", activation |-> "",
     activationFunc |-> "undefined", gpu |-> FALSE, program |-> "",
     outbound |-> 0, output |-> 0]

\* The activation programs that exist as ../../activations/<name>.glsl.
GlslSources == Catalog

\* const { activation = 'linear' } = attrs: "" is an attrs without activation.
ActivationName(attrs) == IF attrs.activation = "" THEN "linear" ELSE attrs.activation

\* The GPU setup of the constructor.
Activation_setup(S) ==
    IF ~S.act.gpu THEN S
    ELSE IF S.act.activation \notin GlslSources
         THEN Throw(S, "Error: Cannot find module")
         ELSE [compileProgram(S, S.act.activation, "Activation")
                  EXCEPT !.act.program = S.act.activation]

\* constructor(attrs)
Activation_constructor(S, attrs) ==
    IF ~Ok(S) THEN S
    ELSE Activation_setup(
            [S EXCEPT !.act = [exists |-> TRUE, layerClass |-> "Activation",
                               activation |-> ActivationName(attrs),
                               activationFunc |-> ActivationFunc(ActivationName(attrs)),
                               gpu |-> attrs.gpu, program |-> "",
                               outbound |-> attrs.outbound, output |-> 0]])

\* this.activationFunc(this.output): the function applied in place.
Activation_apply(S) ==
    IF S.act.activationFunc = "undefined"
    THEN Throw(S, "TypeError: this.activationFunc is not a function")
    ELSE [S EXCEPT !.buffers[S.tensors[S.act.output].data] =
             [i \in 1..Len(@) |-> ApplyFunc(S.act.activationFunc, @[i])]]

\* this.output = new Tensor(x.tensor.data, x.tensor.shape): the output on x's array.
Activation_shareInput(S, xid) ==
    [Tensor_new(S, S.tensors[xid].data, S.tensors[xid].shape, S.tensors[xid].arrayType)
        EXCEPT !.act.output = NextTensor(S)]

\* The output of the last call kept when x has its shape, x's data copied into it.
Activation_copyInputCached(S, xid) ==
    IF S.act.output # 0 /\ S.act.output # xid
       /\ S.tensors[S.act.output].shape = S.tensors[xid].shape
    THEN Assign(S, S.act.output, Data(S, xid))
    ELSE [Tensor_new(ArrayNew(S, Data(S, xid)), NextArray(S), S.tensors[xid].shape,
                     S.tensors[xid].arrayType)
             EXCEPT !.act.output = NextTensor(S)]

\* this.output = new Tensor(new x.arrayType(x.tensor.data), x.tensor.shape)
Activation_copyInput(S, xid) ==
    [Tensor_new(ArrayNew(S, Data(S, xid)), NextArray(S), S.tensors[xid].shape,
                S.tensors[xid].arrayType)
        EXCEPT !.act.output = NextTensor(S)]

\* _callCPU(x)
Activation_callCPU(S, xid) ==
    IF ~Ok(S) THEN S ELSE Activation_apply(Activation_copyInput(S, xid))

\* _callGPU(x), its first statement: the input's texture.
Activation_inputTexture(S, xid) ==
    IF Ok(S) /\ S.tensors[xid].glTexture = 0
    THEN createGLTexture(S, xid, "float", "Activation") ELSE S

\* The layout fields the new output takes from x.
Activation_layout(out, xt) ==
    IF xt.is1D THEN [out EXCEPT !.is1D = xt.is1D]
    ELSE IF xt.is2DReshaped
         THEN [out EXCEPT !.is2DReshaped = xt.is2DReshaped,
                          !.originalShape = xt.originalShape,
                          !.indicesForReshaped = xt.indicesForReshaped]
         ELSE out

\* The output created on every call of _callGPU(x).
Activation_createOutputAlways(S, xid) ==
    IF ~Ok(S) THEN S
    ELSE [createGLTexture(Tensor_new(S, 0, S.tensors[xid].glTextureShape, "Float32Array"),
                          NextTensor(S), "float", "Activation")
             EXCEPT !.act.output = NextTensor(S),
                    !.tensors[NextTensor(S)] = Activation_layout(@, S.tensors[xid])]

\* The output's creation on the first call of _callGPU(x).
Activation_createOutput(S, xid) ==
    IF ~Ok(S) \/ S.act.output # 0 THEN S
    ELSE [createGLTexture(Tensor_new(S, 0, S.tensors[xid].glTextureShape, "Float32Array"),
                          NextTensor(S), "float", "Activation")
             EXCEPT !.act.output = NextTensor(S),
                    !.tensors[NextTensor(S)] = Activation_layout(@, S.tensors[xid])]

\* The elementwise program run on the input's texture.
Activation_run(S, xid) ==
    IF ~Ok(S) THEN S
    ELSE runProgram(S, S.act.program, S.act.output, <<S.tensors[xid].glTexture>>, -1,
                    "Activation")

\* this.output.reshapeFrom2D() when the output is reshaped.
Activation_reshapeBack(S) ==
    IF Ok(S) /\ S.tensors[S.act.output].is2DReshaped THEN reshapeFrom2D(S, S.act.output) ELSE S

\* The GPU -> CPU data transfer that ends _callGPU(x).
Activation_transfer(S) ==
    IF Ok(S) /\ S.act.outbound = 0
    THEN Activation_reshapeBack(transferFromGLTexture(S, S.act.output, "Activation"))
    ELSE S

\* _callGPU(x)
Activation_callGPU(S, xid) ==
    Activation_transfer(
        Activation_run(Activation_createOutput(Activation_inputTexture(S, xid), xid), xid))

\* call(x) without the early return for 'linear'.
Activation_callNoShortCircuit(S, xid) ==
    IF ~Ok(S) THEN S
    ELSE IF S.act.gpu THEN Activation_callGPU(S, xid)
    ELSE Activation_callCPU(S, xid)

\* call(x): the state after the call; the call returns this.output.
Activation_call(S, xid) ==
    IF ~Ok(S) THEN S
    ELSE IF S.act.activation = "linear" THEN [S EXCEPT !.act.output = xid]
    ELSE IF S.act.gpu THEN Activation_callGPU(S, xid)
    ELSE Activation_callCPU(S, xid)

----------------------------------------------------------------------------
\* TimeDistributed.

\* An index-map collection that is undefined.
NoMaps == [defined |-> FALSE, at |-> <<>>]

\* An index-map collection that is the empty array.
EmptyMaps == [defined |-> TRUE, at |-> <<>>]

NoTimeDistributed ==
    [exists |-> FALSE, layerClass |-> "TimeDistributed", gpu |-> FALSE,
     outbound |-> 0, output |-> 0, outputCopy |-> 0, slice |-> 0, sliceOutput |-> 0,
     inputShape |-> <<>>, outputShape |-> <<>>,
     rowIndexMaps |-> NoMaps, colIndexMaps |-> NoMaps,
     outputRowIndexMaps |-> NoMaps, outputColIndexMaps |-> NoMaps]

\* An attrs without layer.
NoLayer == [defined |-> FALSE, class_name |-> "", activation |-> ""]

\* this.throwError(message)
throwError(S, message) == Throw(S, message)

\* The programs the wrapper compiles, in the constructor's order.
WrapperPrograms ==
    <<"copyTexture", "mapInput", "selectSlice", "copySliceOutput", "mapSliceOutput">>

RECURSIVE CompileAll(_, _, _)
CompileAll(S, sources, layer) ==
    IF sources = <<>> THEN S
    ELSE CompileAll(compileProgram(S, Head(sources), layer), Tail(sources), layer)

\* The GPU setup of the constructor.
TimeDistributed_setup(S) ==
    IF Ok(S) /\ S.td.gpu THEN CompileAll(S, WrapperPrograms, "TimeDistributed") ELSE S

\* The wrapped layer's outbound left as constructed.
TimeDistributed_noSentinel(S) == S

\* this.wrappedLayer.outbound = [null]
TimeDistributed_sentinel(S) == IF Ok(S) THEN [S EXCEPT !.act.outbound = 1] ELSE S

\* The wrapped layer's construction without the check of attrs.layer.
TimeDistributed_wrapUnchecked(S, attrs) ==
    Activation_constructor(S,
        [activation |-> attrs.layer.activation, gpu |-> attrs.gpu, outbound |-> 0])

\* this.wrappedLayer = new layers[layer.class_name](wrappedLayerAttrs)
TimeDistributed_wrap(S, attrs) ==
    IF ~attrs.layer.defined THEN throwError(S, "wrapped layer is undefined.")
    ELSE Activation_constructor(S,
            [activation |-> attrs.layer.activation, gpu |-> attrs.gpu, outbound |-> 0])

\* constructor(attrs)
TimeDistributed_constructor(S, attrs) ==
    TimeDistributed_setup(TimeDistributed_sentinel(TimeDistributed_wrap(
        [S EXCEPT !.td = [NoTimeDistributed EXCEPT !.exists = TRUE,
                                                   !.gpu = attrs.gpu,
                                                   !.outbound = attrs.outbound]],
        attrs)))

\* An invocation of the wrapped layer, logged.
Invoked(S, op, t) ==
    IF ~Ok(S) THEN S
    ELSE [S EXCEPT !.log = Append(@, Entry(op, "TimeDistributed", "", 0, 0, <<>>, t))]

\* ops.assign(step.tensor, x.tensor.pick(i, ...)); stepOutput = this.wrappedLayer.call(step)
TimeDistributed_step(S, xid, step, i) ==
    Activation_call(
        Invoked(Assign(S, step, Pick(Data(S, xid), S.tensors[xid].shape, i)),
                "wrappedLayer.call", i),
        step)

\* The step output assigned to this.output.tensor.pick(0, ...) in every round.
TimeDistributed_storeFirst(S, i) ==
    IF ~Ok(S) THEN S
    ELSE Assign(S, S.td.output,
                AssignPick(Data(S, S.td.output), S.tensors[S.td.output].shape, 0,
                           Data(S, S.act.output)))

\* ops.assign(this.output.tensor.pick(i, ...), stepOutput.tensor)
TimeDistributed_store(S, i) ==
    IF ~Ok(S) THEN S
    ELSE Assign(S, S.td.output,
                AssignPick(Data(S, S.td.output), S.tensors[S.td.output].shape, i,
                           Data(S, S.act.output)))

\* this.output = new Tensor([], [x.tensor.shape[0], ...stepOutputShape])
TimeDistributed_newOutput(S, xid) ==
    IF ~Ok(S) THEN S
    ELSE [Tensor_new(S, 0, <<S.tensors[xid].shape[1]>> \o S.tensors[S.act.output].shape,
                     "Float32Array")
             EXCEPT !.td.output = NextTensor(S)]

\* The loop of _callCPU(x): round i and the rounds after it.
RECURSIVE TimeDistributed_loopCPU(_, _, _, _)
TimeDistributed_loopCPU(S, xid, step, i) ==
    IF ~Ok(S) \/ i >= S.tensors[xid].shape[1] THEN S
    ELSE TimeDistributed_loopCPU(
            TimeDistributed_store(TimeDistributed_step(S, xid, step, i), i),
            xid, step, i + 1)

\* _callCPU(x)
TimeDistributed_callCPU(S, xid) ==
    TimeDistributed_loopCPU(
        TimeDistributed_store(
            TimeDistributed_newOutput(
                TimeDistributed_step(
                    Tensor_new(S, 0, Tail(S.tensors[xid].shape), "Float32Array"),
                    xid, NextTensor(S), 0),
                xid),
            0),
        xid, NextTensor(S), 1)

\* One index map of a collection: a new Int32Array tensor of `shape` holding
\* `content`, square-reshaped and given an int texture.
IndexMap(S, content, shape) ==
    createGLTexture(
        reshapeTo2DSquare(
            Assign(Tensor_new(S, 0, shape, "Int32Array"), NextTensor(S), content),
            NextTensor(S)),
        NextTensor(S), "int", "TimeDistributed")

\* The two tensors new Tensor(indicesForReshaped.row.data, ...) and
\* new Tensor(indicesForReshaped.col.data, ...).
IndicesTensors(S, indicesForReshaped) ==
    Tensor_new(
        ArrayNew(
            Tensor_new(ArrayNew(S, indicesForReshaped.row), NextArray(S),
                       indicesForReshaped.shape, "Int32Array"),
            indicesForReshaped.col),
        NextArray(S) + 1, indicesForReshaped.shape, "Int32Array")

\* Round t of the loop of _createIndexMap: the row and the col map are
\* created one statement after the other, so the row map is the tensor
\* NextTensor(S) and the col map the one after it.
TimeDistributed_sliceMaps(S, indices, t) ==
    [IndexMap(IndexMap(S, Pick(indices.row, indices.shape, t), Tail(S.td.inputShape)),
              Pick(indices.col, indices.shape, t), Tail(S.td.inputShape))
        EXCEPT !.td.rowIndexMaps.at = Append(@, NextTensor(S)),
               !.td.colIndexMaps.at = Append(@, NextTensor(S) + 1)]

RECURSIVE TimeDistributed_indexMapLoop(_, _, _)
TimeDistributed_indexMapLoop(S, indices, t) ==
    IF ~Ok(S) \/ t >= S.td.inputShape[1] THEN S
    ELSE TimeDistributed_indexMapLoop(TimeDistributed_sliceMaps(S, indices, t), indices, t + 1)

\* _createIndexMap(indicesForReshaped) without the early return: the
\* collections are built on every call.
TimeDistributed_createIndexMapAlways(S, indicesForReshaped) ==
    IF ~Ok(S) THEN S
    ELSE IF indicesForReshaped = NoIndices
         THEN Throw(S, "TypeError: Cannot read property 'row' of undefined")
         ELSE TimeDistributed_indexMapLoop(
                 [IndicesTensors(S, indicesForReshaped)
                     EXCEPT !.td.rowIndexMaps = EmptyMaps, !.td.colIndexMaps = EmptyMaps],
                 indicesForReshaped, 0)

\* _createIndexMap(indicesForReshaped)
TimeDistributed_createIndexMap(S, indicesForReshaped) ==
    IF ~Ok(S) \/ (S.td.rowIndexMaps.defined /\ S.td.colIndexMaps.defined) THEN S
    ELSE IF indicesForReshaped = NoIndices
         THEN Throw(S, "TypeError: Cannot read property 'row' of undefined")
         ELSE TimeDistributed_indexMapLoop(
                 [IndicesTensors(S, indicesForReshaped)
                     EXCEPT !.td.rowIndexMaps = EmptyMaps, !.td.colIndexMaps = EmptyMaps],
                 indicesForReshaped, 0)

\* Round t of the loop of _createOutputIndexMap without ops.assigns(..., -1):
\* the cells outside slice t are left 0.
TimeDistributed_outputMapsUnfilled(S, indices, t) ==
    [IndexMap(IndexMap(S, AssignPick(Zeros(Prod(S.td.outputShape)), S.td.outputShape, t,
                                     indices.row),
                       S.td.outputShape),
              AssignPick(Zeros(Prod(S.td.outputShape)), S.td.outputShape, t, indices.col),
              S.td.outputShape)
        EXCEPT !.td.outputRowIndexMaps.at = Append(@, NextTensor(S)),
               !.td.outputColIndexMaps.at = Append(@, NextTensor(S) + 1)]

\* Round t of the loop of _createOutputIndexMap.
TimeDistributed_outputMaps(S, indices, t) ==
    [IndexMap(IndexMap(S, AssignPick(Fill(Prod(S.td.outputShape), -1), S.td.outputShape, t,
                                     indices.row),
                       S.td.outputShape),
              AssignPick(Fill(Prod(S.td.outputShape), -1), S.td.outputShape, t, indices.col),
              S.td.outputShape)
        EXCEPT !.td.outputRowIndexMaps.at = Append(@, NextTensor(S)),
               !.td.outputColIndexMaps.at = Append(@, NextTensor(S) + 1)]

RECURSIVE TimeDistributed_outputIndexMapLoop(_, _, _)
TimeDistributed_outputIndexMapLoop(S, indices, t) ==
    IF ~Ok(S) \/ t >= S.td.outputShape[1] THEN S
    ELSE TimeDistributed_outputIndexMapLoop(TimeDistributed_outputMaps(S, indices, t),
                                            indices, t + 1)

\* _createOutputIndexMap(indicesForReshaped)
TimeDistributed_createOutputIndexMap(S, indicesForReshaped) ==
    IF ~Ok(S) \/ (S.td.outputRowIndexMaps.defined /\ S.td.outputColIndexMaps.defined) THEN S
    ELSE IF indicesForReshaped = NoIndices
         THEN Throw(S, "TypeError: Cannot read property 'row' of undefined")
         ELSE TimeDistributed_outputIndexMapLoop(
                 [IndicesTensors(S, indicesForReshaped)
                     EXCEPT !.td.outputRowIndexMaps = EmptyMaps,
                            !.td.outputColIndexMaps = EmptyMaps],
                 indicesForReshaped, 0)

\* _callGPU(x), its first statement: this.inputShape.
TimeDistributed_inputShape(S, xid) ==
    IF ~Ok(S) THEN S
    ELSE [S EXCEPT !.td.inputShape = IF S.tensors[xid].is2DReshaped
                                     THEN S.tensors[xid].originalShape
                                     ELSE S.tensors[xid].shape]

\* The input's texture, with every input that has none square-reshaped first,
\* whatever its rank.
TimeDistributed_inputTextureSquare(S, xid) ==
    IF ~Ok(S) \/ S.tensors[xid].glTexture # 0 THEN S
    ELSE IF ~S.tensors[xid].is2DReshaped
         THEN createGLTexture(reshapeTo2DSquare(S, xid), xid, "float", "TimeDistributed")
    ELSE S

\* The input's texture, created when the input has none.
TimeDistributed_inputTexture(S, xid) ==
    IF ~Ok(S) \/ S.tensors[xid].glTexture # 0 THEN S
    ELSE IF Len(S.tensors[xid].shape) <= 2
         THEN createGLTexture(S, xid, "float", "TimeDistributed")
    ELSE IF ~S.tensors[xid].is2DReshaped
         THEN createGLTexture(reshapeTo2DSquare(S, xid), xid, "float", "TimeDistributed")
    ELSE S

\* The input index maps, for an input of rank above 2.
TimeDistributed_inputMaps(S, xid) ==
    IF Ok(S) /\ Len(S.td.inputShape) > 2
    THEN TimeDistributed_createIndexMap(S, S.tensors[xid].indicesForReshaped)
    ELSE S

\* this.slice, created on the first call.
TimeDistributed_createSlice(S) ==
    IF ~Ok(S) \/ S.td.slice # 0 THEN S
    ELSE IF Len(Tail(S.td.inputShape)) <= 2
         THEN [createGLTexture(Tensor_new(S, 0, Tail(S.td.inputShape), "Float32Array"),
                               NextTensor(S), "float", "TimeDistributed")
                  EXCEPT !.td.slice = NextTensor(S)]
         ELSE [createGLTexture(
                   reshapeTo2DSquare(Tensor_new(S, 0, Tail(S.td.inputShape), "Float32Array"),
                                     NextTensor(S)),
                   NextTensor(S), "float", "TimeDistributed")
                  EXCEPT !.td.slice = NextTensor(S)]

\* maps[i].glTexture is readable: the collection is defined and has an element i.
HasMap(maps, i) == maps.defined /\ i < Len(maps.at)

MapTexture(S, maps, i) == S.tensors[maps.at[i + 1]].glTexture

\* Timestep i's slice of the input, written into this.slice.
TimeDistributed_selectSlice(S, xid, i) ==
    IF ~Ok(S) THEN S
    ELSE IF Len(S.td.inputShape) <= 2
         THEN runProgram(S, "selectSlice", S.td.slice, <<S.tensors[xid].glTexture>>, i,
                         "TimeDistributed")
    ELSE IF ~HasMap(S.td.rowIndexMaps, i) \/ ~HasMap(S.td.colIndexMaps, i)
         THEN Throw(S, "TypeError: Cannot read property 'glTexture' of undefined")
    ELSE runProgram(S, "mapInput", S.td.slice,
                    <<S.tensors[xid].glTexture, MapTexture(S, S.td.rowIndexMaps, i),
                      MapTexture(S, S.td.colIndexMaps, i)>>,
                    i, "TimeDistributed")

\* this.sliceOutput = this.wrappedLayer.output
TimeDistributed_sliceOutput(S) ==
    IF Ok(S) THEN [S EXCEPT !.td.sliceOutput = S.act.output] ELSE S

\* this.wrappedLayer.call(this.slice) in the place of _callGPU: the wrapped
\* layer's own dispatch, with its early return for 'linear'.
TimeDistributed_callWrappedViaCall(S, i) ==
    IF ~Ok(S) THEN S
    ELSE TimeDistributed_sliceOutput(
            Activation_call(Invoked(S, "wrappedLayer._callGPU", i), S.td.slice))

\* this.wrappedLayer._callGPU(this.slice); this.sliceOutput = this.wrappedLayer.output
TimeDistributed_callWrapped(S, i) ==
    IF ~Ok(S) THEN S
    ELSE TimeDistributed_sliceOutput(
            Activation_callGPU(Invoked(S, "wrappedLayer._callGPU", i), S.td.slice))

\* this.outputShape of an input of rank <= 2.
FlatOutputShape(S) == <<S.td.inputShape[1], S.tensors[S.td.sliceOutput].glTextureShape[2]>>

\* this.outputShape of an input of rank above 2.
FullOutputShape(S) == <<S.td.inputShape[1]>> \o S.tensors[S.td.sliceOutput].originalShape

\* this.output and this.outputCopy, new tensors of `outputShape`.
TimeDistributed_newOutputs(S, outputShape) ==
    [Tensor_new(Tensor_new(S, 0, outputShape, "Float32Array"), 0, outputShape, "Float32Array")
        EXCEPT !.td.outputShape = outputShape,
               !.td.output = NextTensor(S),
               !.td.outputCopy = NextTensor(S) + 1]

\* The textures of this.output and this.outputCopy.
TimeDistributed_outputTextures(S) ==
    createGLTexture(createGLTexture(S, S.td.output, "float", "TimeDistributed"),
                    S.td.outputCopy, "float", "TimeDistributed")

\* this.output.reshapeTo2DSquare(); this.outputCopy.reshapeTo2DSquare()
TimeDistributed_outputSquares(S) ==
    reshapeTo2DSquare(reshapeTo2DSquare(S, S.td.output), S.td.outputCopy)

\* The output index maps, from the slice output's indicesForReshaped.
TimeDistributed_outputIndexMaps(S) ==
    IF ~Ok(S) THEN S
    ELSE TimeDistributed_createOutputIndexMap(S, S.tensors[S.td.sliceOutput].indicesForReshaped)

\* The output's creation on the first call of _callGPU(x).
TimeDistributed_createOutput(S) ==
    IF ~Ok(S) \/ S.td.output # 0 THEN S
    ELSE IF Len(S.td.inputShape) <= 2
         THEN TimeDistributed_outputTextures(TimeDistributed_newOutputs(S, FlatOutputShape(S)))
    ELSE IF S.tensors[S.td.sliceOutput].originalShape = <<>>
         THEN Throw(S, "TypeError: this.sliceOutput.originalShape is not iterable")
    ELSE TimeDistributed_outputIndexMaps(
            TimeDistributed_outputTextures(
                TimeDistributed_outputSquares(
                    TimeDistributed_newOutputs(S, FullOutputShape(S)))))

\* The copy of this.output into this.outputCopy.
TimeDistributed_copyOutput(S, i) ==
    IF ~Ok(S) THEN S
    ELSE runProgram(S, "copyTexture", S.td.outputCopy, <<S.tensors[S.td.output].glTexture>>,
                    i, "TimeDistributed")

\* Timestep i's slice output written into this.output with this.output itself,
\* not this.outputCopy, bound as the source of the other cells.
TimeDistributed_writeSliceInPlace(S, i) ==
    IF ~Ok(S) THEN S
    ELSE IF Len(S.td.inputShape) <= 2
         THEN runProgram(S, "copySliceOutput", S.td.output,
                         <<S.tensors[S.td.output].glTexture,
                           S.tensors[S.td.sliceOutput].glTexture>>,
                         i, "TimeDistributed")
    ELSE IF ~HasMap(S.td.outputRowIndexMaps, i) \/ ~HasMap(S.td.outputColIndexMaps, i)
         THEN Throw(S, "TypeError: Cannot read property 'glTexture' of undefined")
    ELSE runProgram(S, "mapSliceOutput", S.td.output,
                    <<S.tensors[S.td.output].glTexture,
                      S.tensors[S.td.sliceOutput].glTexture,
                      MapTexture(S, S.td.outputRowIndexMaps, i),
                      MapTexture(S, S.td.outputColIndexMaps, i)>>,
                    i, "TimeDistributed")

\* Timestep i's slice output, written into this.output from this.outputCopy.
TimeDistributed_writeSlice(S, i) ==
    IF ~Ok(S) THEN S
    ELSE IF Len(S.td.inputShape) <= 2
         THEN runProgram(S, "copySliceOutput", S.td.output,
                         <<S.tensors[S.td.outputCopy].glTexture,
                           S.tensors[S.td.sliceOutput].glTexture>>,
                         i, "TimeDistributed")
    ELSE IF ~HasMap(S.td.outputRowIndexMaps, i) \/ ~HasMap(S.td.outputColIndexMaps, i)
         THEN Throw(S, "TypeError: Cannot read property 'glTexture' of undefined")
    ELSE runProgram(S, "mapSliceOutput", S.td.output,
                    <<S.tensors[S.td.outputCopy].glTexture,
                      S.tensors[S.td.sliceOutput].glTexture,
                      MapTexture(S, S.td.outputRowIndexMaps, i),
                      MapTexture(S, S.td.outputColIndexMaps, i)>>,
                    i, "TimeDistributed")

\* The loop of _callGPU(x): round i and the rounds after it.
RECURSIVE TimeDistributed_loopGPU(_, _, _)
TimeDistributed_loopGPU(S, xid, i) ==
    IF ~Ok(S) \/ i >= S.td.inputShape[1] THEN S
    ELSE TimeDistributed_loopGPU(
            TimeDistributed_writeSlice(
                TimeDistributed_copyOutput(
                    TimeDistributed_callWrapped(TimeDistributed_selectSlice(S, xid, i), i),
                    i),
                i),
            xid, i + 1)

\* this.output.reshapeFrom2DSquare() when the output is reshaped.
TimeDistributed_reshapeBack(S) ==
    IF Ok(S) /\ S.tensors[S.td.output].is2DReshaped
    THEN reshapeFrom2DSquare(S, S.td.output) ELSE S

\* The GPU -> CPU data transfer that ends _callGPU(x).
TimeDistributed_transfer(S) ==
    IF Ok(S) /\ S.td.outbound = 0
    THEN TimeDistributed_reshapeBack(transferFromGLTexture(S, S.td.output, "TimeDistributed"))
    ELSE S

\* _callGPU(x) up to the slice tensor.
TimeDistributed_prepare(S, xid) ==
    TimeDistributed_createSlice(
        TimeDistributed_inputMaps(
            TimeDistributed_inputTexture(TimeDistributed_inputShape(S, xid), xid),
            xid))

\* Timestep 0 with the write issued before the copy into this.outputCopy.
TimeDistributed_firstWriteBeforeCopy(S, xid) ==
    TimeDistributed_copyOutput(
        TimeDistributed_writeSlice(
            TimeDistributed_createOutput(
                TimeDistributed_callWrapped(TimeDistributed_selectSlice(S, xid, 0), 0)),
            0),
        0)

\* _callGPU(x), timestep 0: the slice, the wrapped layer, the output's
\* creation, the write.
TimeDistributed_first(S, xid) ==
    TimeDistributed_writeSlice(
        TimeDistributed_copyOutput(
            TimeDistributed_createOutput(
                TimeDistributed_callWrapped(TimeDistributed_selectSlice(S, xid, 0), 0)),
            0),
        0)

\* _callGPU(x)
TimeDistributed_callGPU(S, xid) ==
    TimeDistributed_transfer(
        TimeDistributed_loopGPU(
            TimeDistributed_first(TimeDistributed_prepare(S, xid), xid),
            xid, 1))

\* call(x): the state after the call; the call returns this.output.
TimeDistributed_call(S, xid) ==
    IF ~Ok(S) THEN S
    ELSE IF S.td.gpu THEN TimeDistributed_callGPU(S, xid)
    ELSE TimeDistributed_callCPU(S, xid)

----------------------------------------------------------------------------
\* The inputs an upstream producer hands to a layer.

\* Two streams of values the inputs' data is taken from, row-major.
Stream(v) ==
    IF v = 1 THEN <<-1, 1, 2, -2, 0, 3, -3, 1, -1, 2, 0, -2>>
    ELSE <<-1, 2, -3, 4, 0, 5, 1, -1, 2, -2, 3, 0>>

InputData(shape, v) == [i \in 1..Prod(shape) |-> Stream(v)[((i - 1) % Len(Stream(v))) + 1]]

\* The tensor the producer creates: a flat Float32Array tensor of the shape, or
\* ("square") a device-resident tensor an upstream device layer left in
\* square-reshaped form.  The producer's own backend invocations are not part
\* of the call's log.
MakeInput(S, d) ==
    [(IF d.form = "square"
      THEN createGLTexture(
              reshapeTo2DSquare(
                 Tensor_new(ArrayNew(S, InputData(d.shape, d.v)), NextArray(S), d.shape,
                            "Float32Array"),
                 NextTensor(S)),
              NextTensor(S), "float", "upstream")
      ELSE Tensor_new(ArrayNew(S, InputData(d.shape, d.v)), NextArray(S), d.shape,
                      "Float32Array"))
        EXCEPT !.log = <<>>]

\* The inputs of a TimeDistributed layer: T timesteps of slices of rank 1, 2 and 3.
TimeDistributedInputs ==
    [shape : UNION {{<<T, 2>>, <<T, 1, 2>>, <<T, 1, 1, 2>>} : T \in 1..MaxT},
     v : {1, 2}, form : {"host"}]

\* The inputs of a standalone Activation layer.
ActivationInputs(gpu) ==
    [shape : {<<2>>, <<2, 3>>, <<1, 2>>}, v : {1, 2}, form : {"host"}]
    \cup (IF gpu THEN [shape : {<<2, 1, 2>>}, v : {1, 2}, form : {"square"}] ELSE {})

----------------------------------------------------------------------------
\* The state machine.

\* The attributes of a constructor: the class constructed, and the attrs
\* object's layer, activation, gpu and the number of outbound nodes the graph
\* attaches to the layer.
NoAttrs == [class |-> "none", layer |-> NoLayer, activation |-> "", gpu |-> FALSE,
            outbound |-> 0]

NoSnapshot == [tensors |-> <<>>, buffers |-> <<>>, textures |-> <<>>,
               act |-> NoActivation, td |-> NoTimeDistributed]

Init ==
    /\ tensors = <<>>
    /\ buffers = <<>>
    /\ textures = <<>>
    /\ act = NoActivation
    /\ td = NoTimeDistributed
    /\ log = <<>>
    /\ err = ""
    /\ phase = "none"
    /\ config = NoAttrs
    /\ calls = 0
    /\ x = 0
    /\ ret = 0
    /\ pre = NoSnapshot
    /\ shapes = {}

\* The state a constructor or a call starts from: no exception, an empty log.
Start == [State EXCEPT !.log = <<>>, !.err = ""]

Snapshot(S) == [tensors |-> S.tensors, buffers |-> S.buffers, textures |-> S.textures,
                act |-> S.act, td |-> S.td]

Set(S) ==
    /\ tensors' = S.tensors
    /\ buffers' = S.buffers
    /\ textures' = S.textures
    /\ act' = S.act
    /\ td' = S.td
    /\ log' = S.log
    /\ err' = S.err

\* The outcome of new <class>(a): S is the state the constructor left.  A
\* constructor that threw hands out no layer, so nothing is called after it.
Constructed(a, S) ==
    /\ Set(S)
    /\ config' = a
    /\ phase' = IF Ok(S) THEN a.class ELSE "failed"
    /\ UNCHANGED <<calls, x, ret, pre, shapes>>

\* new Activation(attrs)
NewActivation ==
    /\ phase = "none"
    /\ \E a \in [class : {"Activation"}, layer : {NoLayer},
                  activation : Catalog \cup Unknown \cup {""},
                  gpu : BOOLEAN, outbound : {0, 1}] :
          Constructed(a, Activation_constructor(Start, a))

\* new TimeDistributed(attrs)
NewTimeDistributed ==
    /\ phase = "none"
    /\ \E a \in [class : {"TimeDistributed"},
                  layer : {NoLayer} \cup [defined : {TRUE}, class_name : {"Activation"},
                                          activation : Catalog \cup Unknown],
                  activation : {""}, gpu : BOOLEAN, outbound : {0, 1}] :
          Constructed(a, TimeDistributed_constructor(Start, a))

\* The outcome of layer.call(x) from state S0: S is the state after it.
Called(S0, xid, S) ==
    /\ Set(S)
    /\ x' = xid
    /\ ret' = IF ~Ok(S) THEN 0 ELSE IF phase = "Activation" THEN S.act.output ELSE S.td.output
    /\ pre' = Snapshot(S0)
    /\ shapes' = IF x = 0 THEN {} ELSE shapes \cup {LogicalShape(tensors[x])}
    /\ calls' = calls + 1
    /\ UNCHANGED <<phase, config>>

\* activation.call(x): x is a tensor the producer creates, or the tensor of
\* the last call handed in again.
CallActivation ==
    /\ phase = "Activation"
    /\ calls < MaxCalls
    /\ \/ \E d \in ActivationInputs(act.gpu) :
             Called(MakeInput(Start, d), NextTensor(Start),
                    Activation_call(MakeInput(Start, d), NextTensor(Start)))
       \/ /\ x # 0
          /\ Called(Start, x, Activation_call(Start, x))

\* timeDistributed.call(x)
CallTimeDistributed ==
    /\ phase = "TimeDistributed"
    /\ calls < MaxCalls
    /\ \/ \E d \in TimeDistributedInputs :
             Called(MakeInput(Start, d), NextTensor(Start),
                    TimeDistributed_call(MakeInput(Start, d), NextTensor(Start)))
       \/ /\ x # 0
          /\ Called(Start, x, TimeDistributed_call(Start, x))

Next ==
    \/ NewActivation
    \/ CallActivation
    \/ NewTimeDistributed
    \/ CallTimeDistributed

Spec == Init /\ [][Next]_vars

----------------------------------------------------------------------------
\* The last call, as the claims below read it.

\* The layer the last call was made to, and its backend.
IsActivation == phase = "Activation" /\ calls > 0

IsWrapper == phase = "TimeDistributed" /\ calls > 0

\* The input of the last call as it was when the call started.
Input == pre.tensors[x]

InputData0 == pre.buffers[pre.tensors[x].data]

\* The elementwise function of the (inner) Activation over a buffer.
Elementwise(data) == [i \in 1..Len(data) |-> ApplyFunc(act.activation, data[i])]

\* Every tensor, buffer and texture that existed when the call started is as it was.
HeapKept ==
    /\ tensors = pre.tensors
    /\ buffers = pre.buffers
    /\ textures = pre.textures

----------------------------------------------------------------------------
\* C1: a call of an Activation whose activation is 'linear' (on either
\* backend, the first call and a later one) returns its input x, the very
\* same tensor, leaves every tensor, buffer and texture as it was, allocates
\* nothing, and makes no backend invocation.
C1_LinearReturnsInput ==
    (IsActivation /\ act.activation = "linear") =>
        /\ err = ""
        /\ ret = x
        /\ act.output = x
        /\ HeapKept
        /\ log = <<>>

\* A linear Activation on the device backend that has answered its last call.
C1_Witness ==
    /\ IsActivation
    /\ act.activation = "linear"
    /\ act.gpu
    /\ calls = MaxCalls
    /\ ret = x
    /\ x # 0

\* C2: every Activation that was constructed, on either backend, has an
\* activation of the catalog: a name outside it fails the constructor, so no
\* call ever meets one.
C2_UnknownNameFailsConstruction ==
    (config.class = "Activation" /\ config.activation \in Unknown) => phase = "failed"

\* An Activation of an unknown name that was constructed on the CPU backend,
\* and whose call threw.
C2_Deferred ==
    /\ IsActivation
    /\ ~act.gpu
    /\ act.activation \in Unknown
    /\ err = "TypeError: this.activationFunc is not a function"

\* C3: the constructor of a TimeDistributed whose attrs have no layer throws
\* 'wrapped layer is undefined.', with no wrapped layer instantiated and no
\* program compiled; a TimeDistributed that was constructed has its wrapped layer.
C3_NoLayerFailsConstruction ==
    /\ (config.class = "TimeDistributed" /\ ~config.layer.defined) =>
          /\ phase = "failed"
          /\ err = "wrapped layer is undefined."
          /\ ~act.exists
          /\ log = <<>>
    /\ phase = "TimeDistributed" => act.exists

\* A device TimeDistributed without layer, after its constructor threw.
C3_Witness ==
    /\ config.class = "TimeDistributed"
    /\ ~config.layer.defined
    /\ config.gpu
    /\ phase = "failed"

\* The invocations of the wrapped layer a CPU call over T timesteps makes.
InvocationsCPU(T) ==
    [i \in 1..T |-> Entry("wrappedLayer.call", "TimeDistributed", "", 0, 0, <<>>, i - 1)]

\* C4: a CPU call of the wrapper over an input of T timesteps invokes the
\* wrapped layer's call exactly T times, for the timesteps 0..T-1 in order; the
\* output has T timesteps of the slice output's shape, and its timestep t is
\* the wrapped layer's function of the input's timestep t (also when the
\* wrapped layer returns its input, as 'linear' does).
C4_CpuPerTimestep ==
    (IsWrapper /\ ~td.gpu /\ act.activation \in Catalog) =>
        /\ err = ""
        /\ ret = td.output
        /\ log = InvocationsCPU(Input.shape[1])
        /\ tensors[ret].shape = <<Input.shape[1]>> \o Tail(Input.shape)
        /\ \A t \in 0..(Input.shape[1] - 1) :
              Pick(Data(State, ret), tensors[ret].shape, t)
                 = Elementwise(Pick(InputData0, Input.shape, t))

\* A CPU wrapper of a linear layer after its last call, over MaxT timesteps of
\* slices of rank 2.
C4_Witness ==
    /\ IsWrapper
    /\ ~td.gpu
    /\ act.activation = "linear"
    /\ calls = MaxCalls
    /\ Len(Input.shape) = 3
    /\ Input.shape[1] = MaxT
    /\ ret # 0

\* The state the CPU path of the wrapper leaves for the input of the last call.
CpuPath ==
    TimeDistributed_callCPU(
        [tensors |-> pre.tensors, buffers |-> pre.buffers, textures |-> pre.textures,
         act |-> [pre.act EXCEPT !.gpu = FALSE], td |-> [pre.td EXCEPT !.gpu = FALSE],
         log |-> <<>>, err |-> ""],
        x)

\* The last call is a device call of a wrapper with no outbound node, of a
\* layer of the catalog, on an input in native layout of the given ranks.
DeviceCallOfRank(ranks) ==
    /\ IsWrapper
    /\ td.gpu
    /\ td.outbound = 0
    /\ act.activation \in Catalog
    /\ ~Input.is2DReshaped
    /\ Len(Input.shape) \in ranks

\* The output of the last call has the shape and the values the CPU path gives.
SameAsCpuPath ==
    /\ err = ""
    /\ ret # 0
    /\ tensors[ret].shape = CpuPath.tensors[CpuPath.td.output].shape
    /\ Data(State, ret) = Data(CpuPath, CpuPath.td.output)

\* C5: the first device call of the wrapper gives the output the CPU path
\* gives for the same input and wrapped layer, for inputs of rank 2 and of
\* every rank above 2, rank 3 included.
C5_DeviceEqualsCpu ==
    (DeviceCallOfRank({2, 3, 4}) /\ calls = 1) => SameAsCpuPath

\* The scenario: a device wrapper of relu called on the input of shape [3,1,2]
\* with the timesteps [-1,1], [2,-2], [0,3]; the call threw.
C5_ScenarioThrows ==
    /\ IsWrapper
    /\ td.gpu
    /\ act.activation = "relu"
    /\ calls = 1
    /\ Input.shape = <<3, 1, 2>>
    /\ InputData0 = <<-1, 1, 2, -2, 0, 3>>
    /\ err = "TypeError: this.sliceOutput.originalShape is not iterable"

\* What of C5 the code keeps: the device path equals the CPU path for the
\* inputs of rank 2 and of rank 4.
DeviceEqualsCpuOffRank3 ==
    (DeviceCallOfRank({2, 4}) /\ calls = 1) => SameAsCpuPath

----------------------------------------------------------------------------
\* The last call by the path it took.

\* A call that took _callGPU: of an Activation that is not linear, or of a wrapper.
DeviceCall ==
    \/ IsActivation /\ act.gpu /\ act.activation # "linear"
    \/ IsWrapper /\ td.gpu

\* A call that took _callCPU.
HostCall ==
    \/ IsActivation /\ ~act.gpu /\ act.activation # "linear"
    \/ IsWrapper /\ ~td.gpu

\* this.output of the layer called, after the call and when it started.
Output == IF phase = "Activation" THEN act.output ELSE td.output

PreOutput == IF phase = "Activation" THEN pre.act.output ELSE pre.td.output

\* The number of outbound nodes of the layer called.
Outbound == IF phase = "Activation" THEN act.outbound ELSE td.outbound

\* The last call's input has the logical shape of an earlier call's input.
SeenShape == LogicalShape(Input) \in shapes

\* The call created no texture for tensor id.
NoTextureCreated(id) ==
    \A i \in DOMAIN log : log[i].op = "createGLTexture" => log[i].output # id

\* Tensor id and its texture handle are what they were when the call started.
SameAllocation(id, before) ==
    /\ id = before
    /\ id # 0
    /\ tensors[id].glTexture # 0
    /\ tensors[id].glTexture = pre.tensors[id].glTexture
    /\ NoTextureCreated(id)

\* C6: a device call of a layer (Activation or wrapper) that comes after a
\* call with an input of the same shape finds the output allocated: the output
\* tensor and its texture handle are the ones the call started with, and so
\* are the wrapper's outputCopy and its texture; a wrapper has its output and
\* its outputCopy together or neither.
C6_DeviceOutputCreatedOnce ==
    /\ (DeviceCall /\ calls > 1 /\ err = "" /\ SeenShape) =>
          /\ SameAllocation(Output, PreOutput)
          /\ IsWrapper => SameAllocation(td.outputCopy, pre.td.outputCopy)
    /\ (phase = "TimeDistributed" /\ td.gpu) => ((td.output = 0) <=> (td.outputCopy = 0))

\* A device wrapper after a second call with an input of the same shape, that
\* left other content in the output's texture.
C6_Witness ==
    /\ IsWrapper
    /\ td.gpu
    /\ calls = MaxCalls
    /\ err = ""
    /\ SeenShape
    /\ td.output = pre.td.output
    /\ td.output # 0
    /\ textures[tensors[td.output].glTexture].data
          # pre.textures[tensors[td.output].glTexture].data

\* C7 as stated: the output is cached by input shape, on either backend.  A
\* call with a shape an earlier call had allocates no output, and after a call
\* of a layer with no outbound node with a new shape the output has that
\* input's shape.
C7_CachedByShape ==
    ((DeviceCall \/ HostCall) /\ calls > 1 /\ err = "") =>
        /\ SeenShape => Output = PreOutput
        /\ (~SeenShape /\ Outbound = 0) => tensors[Output].shape = LogicalShape(Input)

\* C7 as the code has it: on the device path the output is allocated once
\* for the layer instance and every later call reuses it whatever its input's
\* shape, so the output keeps the texture shape of its creation; on the CPU
\* path every call allocates a new output tensor, of its input's shape.
C7_OncePerInstanceOrPerCall ==
    /\ (DeviceCall /\ calls > 1 /\ err = "" /\ PreOutput # 0) =>
          /\ SameAllocation(Output, PreOutput)
          /\ tensors[Output].glTextureShape = pre.tensors[PreOutput].glTextureShape
    /\ (HostCall /\ err = "") =>
          /\ Output > Len(pre.tensors)
          /\ tensors[Output].shape = Input.shape

\* A device Activation after a second call, with an input of another shape
\* than the first: the output is the first call's, of the first call's shape.
C7_Witness ==
    /\ IsActivation
    /\ act.gpu
    /\ act.activation # "linear"
    /\ act.outbound = 0
    /\ calls = MaxCalls
    /\ err = ""
    /\ ~SeenShape
    /\ act.output = pre.act.output
    /\ tensors[act.output].shape # LogicalShape(Input)

\* The shape of the host array of a materialized tensor: the original shape
\* when it is square-reshaped, the texture's shape ([n] when 1D) otherwise.
MaterialShape(tn) ==
    IF tn.is2DReshaped THEN tn.originalShape
    ELSE IF tn.is1D THEN <<tn.glTextureShape[2]>>
    ELSE tn.glTextureShape

\* Tensor id holds, flat and in its logical shape, what its texture holds, and
\* the call made the transfer.
Materialized(id) ==
    /\ id # 0
    /\ \E i \in DOMAIN log : log[i].op = "transferFromGLTexture" /\ log[i].output = id
    /\ tensors[id].shape = MaterialShape(tensors[id])
    /\ Data(State, id)
          = SubSeq(textures[tensors[id].glTexture].data, 1, Prod(tensors[id].shape))

\* C8: every device call of a layer with no outbound node (an Activation, or
\* a wrapper of a layer of the catalog), the first and the later ones, returns
\* its output materialized: transferred off the device and, when
\* square-reshaped, with the reshape inverted.
C8_TerminalMaterialized ==
    (DeviceCall /\ Outbound = 0 /\ act.activation \in Catalog) =>
        /\ err = ""
        /\ ret = Output
        /\ Materialized(ret)

\* A device wrapper with no outbound node whose first call, on an input of
\* rank 3, threw before the transfer.
C8_NotMaterialized ==
    /\ IsWrapper
    /\ td.gpu
    /\ td.outbound = 0
    /\ act.activation \in Catalog
    /\ calls = 1
    /\ Len(Input.shape) = 3
    /\ err # ""
    /\ \A i \in DOMAIN log : log[i].op # "transferFromGLTexture"

\* What of C8 the code keeps: a device call of a layer with no outbound node
\* that returns, returns its output materialized.
TerminalMaterializedOnReturn ==
    (DeviceCall /\ Outbound = 0 /\ err = "") => (ret = Output /\ Materialized(ret))

\* C9: the wrapped layer of a constructed wrapper has a nonzero outbound
\* count, in every state; no call of the wrapper, whatever its own outbound
\* count, has the wrapped layer transfer its output off the device or invert
\* its reshape: the wrapped layer's output keeps its texture's shape.
C9_InnerNeverMaterializes ==
    phase = "TimeDistributed" =>
        /\ act.exists
        /\ act.outbound # 0
        /\ \A i \in DOMAIN log :
              ~(log[i].op = "transferFromGLTexture" /\ log[i].layer = "Activation")
        /\ (td.gpu /\ act.output # 0) =>
              /\ tensors[act.output].shape = tensors[act.output].glTextureShape
              /\ Data(State, act.output) = Zeros(Prod(tensors[act.output].shape))

\* A device wrapper with no outbound node after a call over MaxT timesteps of
\* square-reshaped slices, its wrapped layer's output on the device.
C9_Witness ==
    /\ IsWrapper
    /\ td.gpu
    /\ td.outbound = 0
    /\ err = ""
    /\ Input.shape[1] = MaxT
    /\ td.sliceOutput = act.output
    /\ tensors[act.output].is2DReshaped
    /\ \E i \in DOMAIN log : log[i].op = "wrappedLayer._callGPU" /\ log[i].t = MaxT - 1

\* C10: a CPU call of an Activation that is not linear leaves its input, and
\* every array that existed, as it was; the output is another tensor, on
\* another array, of the input's shape, and holds the function of the input's data.
C10_CpuKeepsInput ==
    (IsActivation /\ ~act.gpu /\ act.activation \in Catalog \ {"linear"}) =>
        /\ err = ""
        /\ ret = act.output
        /\ tensors[x] = Input
        /\ SubSeq(buffers, 1, Len(pre.buffers)) = pre.buffers
        /\ ret # x
        /\ tensors[ret].data # tensors[x].data
        /\ tensors[ret].shape = Input.shape
        /\ Data(State, ret) = Elementwise(InputData0)

\* A CPU relu after a call whose input has a negative cell: the output
\* differs from the input, which is as it was.
C10_Witness ==
    /\ IsActivation
    /\ ~act.gpu
    /\ act.activation = "relu"
    /\ err = ""
    /\ Data(State, ret) # Data(State, x)
    /\ Data(State, x) = InputData0

----------------------------------------------------------------------------
\* The program invocations of the last call.

\* The elements of a sequence.
Range(seq) == {seq[i] : i \in DOMAIN seq}

\* The positions of the log that are program invocations.
Runs == {i \in DOMAIN log : log[i].op = "runProgram"}

\* The textures of the tensors the wrapper reads and writes in its loop.
LoopTextures ==
    <<tensors[x].glTexture, tensors[td.slice].glTexture, tensors[td.sliceOutput].glTexture,
      tensors[td.output].glTexture, tensors[td.outputCopy].glTexture>>

\* C11: no program invocation of a wrapper call, by the wrapper or by its
\* wrapped Activation, in any timestep of any call, writes a texture it
\* reads: the output's texture is a texture, and none of the invocation's
\* inputs; and after a call that returned, x, slice, sliceOutput, output and
\* outputCopy have five different textures.
C11_NoReadOfWrittenTexture ==
    (phase = "TimeDistributed" /\ td.gpu) =>
        /\ \A i \in Runs :
              /\ log[i].texture # 0
              /\ 0 \notin Range(log[i].inputs)
              /\ log[i].texture \notin Range(log[i].inputs)
        /\ (calls > 0 /\ err = "") => Cardinality(Range(LoopTextures)) = Len(LoopTextures)

\* A device wrapper after a call over MaxT timesteps of square-reshaped
\* slices, whose last write ran the mapSliceOutput program.
C11_Witness ==
    /\ IsWrapper
    /\ td.gpu
    /\ err = ""
    /\ \E i \in Runs :
          /\ log[i].program = "mapSliceOutput"
          /\ log[i].t = MaxT - 1
          /\ log[i].texture = tensors[td.output].glTexture

----------------------------------------------------------------------------
\* The steps of a device call of the wrapper.

\* The texture of tensor id, 0 for no tensor.
TextureOf(id) == IF id = 0 THEN 0 ELSE tensors[id].glTexture

\* What a log entry tells of a step: the operation, who issued it, the
\* program, the tensor written, the timestep, and the first texture read.
StepOf(e) ==
    [op |-> e.op, layer |-> e.layer, program |-> e.program, output |-> e.output, t |-> e.t,
     source |-> IF e.inputs = <<>> THEN 0 ELSE e.inputs[1]]

\* The log entries that are steps: program runs, invocations of the wrapped
\* layer, transfers (the textures a first call creates are not).
IsStep(e) == e.op \in {"runProgram", "wrappedLayer._callGPU", "transferFromGLTexture"}

RECURSIVE StepsOf(_)
StepsOf(entries) ==
    IF entries = <<>> THEN <<>>
    ELSE (IF IsStep(Head(entries)) THEN <<StepOf(Head(entries))>> ELSE <<>>)
            \o StepsOf(Tail(entries))

\* The four steps of timestep t, the second being the invocation of the
\* wrapped layer and the program it runs.
TimestepSteps(t) ==
    <<[op |-> "runProgram", layer |-> "TimeDistributed",
       program |-> IF Len(td.inputShape) <= 2 THEN "selectSlice" ELSE "mapInput",
       output |-> td.slice, t |-> t, source |-> TextureOf(x)],
      [op |-> "wrappedLayer._callGPU", layer |-> "TimeDistributed", program |-> "",
       output |-> 0, t |-> t, source |-> 0],
      [op |-> "runProgram", layer |-> "Activation", program |-> act.program,
       output |-> td.sliceOutput, t |-> -1, source |-> TextureOf(td.slice)],
      [op |-> "runProgram", layer |-> "TimeDistributed", program |-> "copyTexture",
       output |-> td.outputCopy, t |-> t, source |-> TextureOf(td.output)],
      [op |-> "runProgram", layer |-> "TimeDistributed",
       program |-> IF Len(td.inputShape) <= 2 THEN "copySliceOutput" ELSE "mapSliceOutput",
       output |-> td.output, t |-> t, source |-> TextureOf(td.outputCopy)]>>

RECURSIVE TimestepsFrom(_, _)
TimestepsFrom(t, T) == IF t >= T THEN <<>> ELSE TimestepSteps(t) \o TimestepsFrom(t + 1, T)

\* The steps of a whole call over T timesteps: timestep 0 to T-1, then the
\* transfer when the wrapper has no outbound node.
CallSteps(T) ==
    TimestepsFrom(0, T)
       \o (IF td.outbound = 0
           THEN <<[op |-> "transferFromGLTexture", layer |-> "TimeDistributed", program |-> "",
                   output |-> td.output, t |-> -1, source |-> 0]>>
           ELSE <<>>)

IsPrefix(a, b) == Len(a) <= Len(b) /\ a = SubSeq(b, 1, Len(a))

\* C12: the steps a device call of the wrapper over T timesteps issues are,
\* for t = 0..T-1 in this order, slice t extracted into slice, the wrapped
\* layer's device path run on slice, output copied into outputCopy, timestep
\* t written into output from outputCopy; then, for a wrapper with no
\* outbound node, the transfer.  A call that returned issued all of them (T
\* invocations of the wrapped layer), a call that threw a prefix of them.
C12_TimestepsInSequence ==
    (IsWrapper /\ td.gpu) =>
        /\ IsPrefix(StepsOf(log), CallSteps(td.inputShape[1]))
        /\ err = "" => StepsOf(log) = CallSteps(td.inputShape[1])

\* A device wrapper with no outbound node after its last call, over MaxT
\* timesteps: five steps per timestep and the transfer.
C12_Witness ==
    /\ IsWrapper
    /\ td.gpu
    /\ td.outbound = 0
    /\ calls = MaxCalls
    /\ err = ""
    /\ td.inputShape[1] = MaxT
    /\ Len(StepsOf(log)) = 5 * MaxT + 1

----------------------------------------------------------------------------
\* The states a device call of the wrapper goes through.

\* The state the last call started from.
PreState ==
    [tensors |-> pre.tensors, buffers |-> pre.buffers, textures |-> pre.textures,
     act |-> pre.act, td |-> pre.td, log |-> <<>>, err |-> ""]

\* The state of the last call right before the write of timestep t: the
\* copy into outputCopy is made, the write is not.
RECURSIVE BeforeWrite(_)
BeforeWrite(t) ==
    IF t = 0
    THEN TimeDistributed_copyOutput(
            TimeDistributed_createOutput(
                TimeDistributed_callWrapped(
                    TimeDistributed_selectSlice(TimeDistributed_prepare(PreState, x), x, 0),
                    0)),
            0)
    ELSE TimeDistributed_copyOutput(
            TimeDistributed_callWrapped(
                TimeDistributed_selectSlice(
                    TimeDistributed_writeSlice(BeforeWrite(t - 1), t - 1), x, t),
                t),
            t)

\* The state right after the write of timestep t.
AfterWrite(t) == TimeDistributed_writeSlice(BeforeWrite(t), t)

\* The content of the texture of tensor id in state S.
TextureData(S, id) == S.textures[S.tensors[id].glTexture].data

\* The number of cells of a timestep of the output, and the cells of the
\* output's texture that are cells of the output (a square-reshaped output
\* has padding after them).
OutputSliceSize ==
    IF Len(td.inputShape) <= 2 THEN tensors[td.output].glTextureShape[2]
    ELSE Prod(Tail(td.outputShape))

OutputCells ==
    IF Len(td.inputShape) <= 2 THEN 1..Prod(tensors[td.output].glTextureShape)
    ELSE 1..Prod(td.outputShape)

\* The timestep cell k of the output belongs to.
TimestepOfCell(k) == (k - 1) \div OutputSliceSize

\* The wrapped layer's result for the input's timestep s.
InnerResult(s) == Elementwise(Pick(InputData0, LogicalShape(Input), s))

\* The write of timestep t changed the cells of timestep t only: they hold
\* the slice output, every other cell of the output what outputCopy held.
WriteFrame(t) ==
    \A k \in OutputCells :
        TextureData(AfterWrite(t), td.output)[k]
           = IF TimestepOfCell(k) = t
             THEN TextureData(BeforeWrite(t), td.sliceOutput)[k - t * OutputSliceSize]
             ELSE TextureData(BeforeWrite(t), td.outputCopy)[k]

\* After the write of timestep t the cells of the timesteps 0..t hold the
\* wrapped layer's results for them.
WrittenSoFar(t) ==
    \A k \in OutputCells :
        TimestepOfCell(k) <= t =>
            TextureData(AfterWrite(t), td.output)[k]
               = InnerResult(TimestepOfCell(k))[k - TimestepOfCell(k) * OutputSliceSize]

\* The output index maps of timestep t, on the cells of the output: -1
\* outside slice t, the coordinate of the slice output's cell inside it.
OutputMapOfTimestep(t) ==
    \A k \in OutputCells :
        /\ Data(State, td.outputRowIndexMaps.at[t + 1])[k]
              = IF TimestepOfCell(k) = t
                THEN tensors[td.sliceOutput].indicesForReshaped.row[k - t * OutputSliceSize]
                ELSE -1
        /\ Data(State, td.outputColIndexMaps.at[t + 1])[k]
              = IF TimestepOfCell(k) = t
                THEN tensors[td.sliceOutput].indicesForReshaped.col[k - t * OutputSliceSize]
                ELSE -1

\* The slice and the output the wrapper holds are the ones of an input of the
\* last call's rank and slice shape (they are when the call created them).
SliceFitsInput ==
    /\ LogicalShape(tensors[td.slice]) = Tail(td.inputShape)
    /\ Len(td.outputShape) = Len(td.inputShape)

\* The output and the index maps the wrapper holds are the ones of an input
\* of the last call's shape.
OutputFitsInput == SliceFitsInput /\ td.outputShape = td.inputShape

\* C13: in a device call of the wrapper that returned, the write of every
\* timestep t changes the output's cells of timestep t only and leaves every
\* other cell of the output as outputCopy holds it, so that after it the
\* cells of the timesteps 0..t hold the wrapped layer's results (the input
\* having the shape the output was created for); the output's texture after
\* the last write is the one the call left.  For an input of rank above 2
\* the output index maps of timestep t are -1 outside slice t and the slice
\* output's coordinates inside it.
C13_WriteChangesOneTimestep ==
    (IsWrapper /\ td.gpu /\ err = "" /\ SliceFitsInput) =>
        /\ \A t \in 0..(td.inputShape[1] - 1) :
              /\ WriteFrame(t)
              /\ OutputFitsInput => WrittenSoFar(t)
        /\ TextureData(AfterWrite(td.inputShape[1] - 1), td.output)
              = TextureData(State, td.output)
        /\ Len(td.inputShape) > 2 =>
              \A t \in 0..(Len(td.outputRowIndexMaps.at) - 1) : OutputMapOfTimestep(t)

\* A device wrapper after a second call over MaxT timesteps of
\* square-reshaped slices, its output holding other content before the call.
C13_Witness ==
    /\ IsWrapper
    /\ td.gpu
    /\ err = ""
    /\ calls = MaxCalls
    /\ OutputFitsInput
    /\ Len(td.inputShape) > 2
    /\ td.inputShape[1] = MaxT
    /\ Len(td.outputRowIndexMaps.at) = MaxT
    /\ pre.td.output # 0
    /\ TextureData(PreState, td.output) # TextureData(State, td.output)

----------------------------------------------------------------------------
\* The index-map collections over the calls.

\* Both collections of a pair exist.
Built(rowMaps, colMaps) == rowMaps.defined /\ colMaps.defined

\* A collection is the one the call started with, and so are its tensors and
\* the content of their textures.
SameMaps(maps, before) ==
    /\ maps = before
    /\ \A id \in Range(maps.at) :
          /\ tensors[id] = pre.tensors[id]
          /\ buffers[tensors[id].data] = pre.buffers[tensors[id].data]
          /\ TextureData(State, id) = TextureData(PreState, id)

\* C14: once a wrapper has its input index-map collections, every later
\* device call leaves them, their tensors and their textures as they are, and
\* _createIndexMap returns the state it was called in; the same for the
\* output index-map collections and _createOutputIndexMap; a call that starts
\* with all four creates no tensor, and no texture but the input's.
C14_IndexMapsBuiltOnce ==
    (phase = "TimeDistributed" /\ td.gpu /\ calls > 0) =>
        /\ Built(td.rowIndexMaps, td.colIndexMaps) =>
              TimeDistributed_createIndexMap(State, tensors[x].indicesForReshaped) = State
        /\ Built(td.outputRowIndexMaps, td.outputColIndexMaps) =>
              TimeDistributed_createOutputIndexMap(State, NoIndices) = State
        /\ Built(pre.td.rowIndexMaps, pre.td.colIndexMaps) =>
              /\ SameMaps(td.rowIndexMaps, pre.td.rowIndexMaps)
              /\ SameMaps(td.colIndexMaps, pre.td.colIndexMaps)
        /\ Built(pre.td.outputRowIndexMaps, pre.td.outputColIndexMaps) =>
              /\ SameMaps(td.outputRowIndexMaps, pre.td.outputRowIndexMaps)
              /\ SameMaps(td.outputColIndexMaps, pre.td.outputColIndexMaps)
        /\ (/\ Built(pre.td.rowIndexMaps, pre.td.colIndexMaps)
            /\ Built(pre.td.outputRowIndexMaps, pre.td.outputColIndexMaps)) =>
              /\ Len(tensors) = Len(pre.tensors)
              /\ \A i \in DOMAIN log : log[i].op = "createGLTexture" => log[i].output = x

\* A device wrapper that has its four collections, after a second call on
\* another input of rank above 2, which went through the gather of timestep 0.
C14_Witness ==
    /\ IsWrapper
    /\ td.gpu
    /\ calls = MaxCalls
    /\ err = ""
    /\ Len(td.inputShape) > 2
    /\ Built(pre.td.rowIndexMaps, pre.td.colIndexMaps)
    /\ Built(pre.td.outputRowIndexMaps, pre.td.outputColIndexMaps)
    /\ Len(td.rowIndexMaps.at) = MaxT
    /\ \E i \in DOMAIN log : log[i].op = "createGLTexture" /\ log[i].output = x
    /\ \E i \in Runs : log[i].program = "mapInput"

----------------------------------------------------------------------------
\* The input over a call.

\* A tensor without what createGLTexture attaches to it.
WithoutTexture(tn) == [tn EXCEPT !.glTexture = 0, !.glTextureShape = <<>>, !.is1D = FALSE]

\* The input is the tensor it was, on the array it was, but for a texture
\* attached to it; a texture it had is the one it has.
InputUntouched ==
    /\ WithoutTexture(tensors[x]) = WithoutTexture(Input)
    /\ Data(State, x) = InputData0
    /\ Input.glTexture # 0 => tensors[x] = Input

\* The last call is one in which the device wrapper converts its input: an
\* input of rank above 2 in native layout, without texture.
ConvertsInput ==
    /\ IsWrapper
    /\ td.gpu
    /\ Len(Input.shape) > 2
    /\ ~Input.is2DReshaped
    /\ Input.glTexture = 0

\* The input was converted in place to square-reshaped form: its shape is the
\* square, its data the old data and padding on another array, its original
\* shape the old shape.
InputConverted ==
    /\ tensors[x].is2DReshaped
    /\ ~Input.is2DReshaped
    /\ tensors[x].originalShape = Input.shape
    /\ tensors[x].shape = <<CeilSqrt(Prod(Input.shape)), CeilSqrt(Prod(Input.shape))>>
    /\ tensors[x].shape # Input.shape
    /\ tensors[x].data # Input.data
    /\ SubSeq(Data(State, x), 1, Prod(Input.shape)) = InputData0
    /\ buffers[Input.data] = InputData0

\* C15 as stated: no call of a layer, on either backend, changes its input's
\* shape, layout state or data; the one effect on the input is a texture
\* attached to it.
C15_InputReadOnly ==
    (calls > 0 /\ x # 0) => InputUntouched

\* C15 as the code has it: a call never changes its input's logical shape
\* nor the data of its cells.  An Activation, on either backend, and the
\* wrapper on the CPU leave the input as it is but for an attached texture,
\* and so does the device wrapper for an input of rank at most 2 or already
\* square-reshaped; the device wrapper converts an input of rank above 2 that
\* is in native layout in place to square-reshaped form.
C15_InputKeptOrConverted ==
    (calls > 0 /\ x # 0) =>
        /\ LogicalShape(tensors[x]) = LogicalShape(Input)
        /\ SubSeq(Data(State, x), 1, Prod(LogicalShape(Input)))
              = SubSeq(InputData0, 1, Prod(LogicalShape(Input)))
        /\ ~ConvertsInput => InputUntouched
        /\ ConvertsInput => InputConverted

\* A device wrapper after a call on a native input of rank above 2: the input
\* is square-reshaped.
C15_Witness ==
    /\ ConvertsInput
    /\ err = ""
    /\ InputConverted
    /\ tensors[x].glTexture # 0

----------------------------------------------------------------------------
\* Who holds which tensor.

\* The step tensor of a CPU call of the wrapper: the first tensor the call creates.
StepTensor == Len(pre.tensors) + 1

\* C16 as stated: after a call that returned, the layer's output is another
\* tensor than the input it was called with, and for a wrapper the wrapped
\* layer's output is neither the wrapper's input nor the wrapper's output.
C16_OutputOwned ==
    (calls > 0 /\ err = "") =>
        /\ ret # x
        /\ IsWrapper => (act.output # x /\ act.output # td.output)

\* C16 as the code has it: the output of an Activation that went through
\* call() is its input itself exactly when its activation is 'linear' (for the
\* wrapped layer of a CPU wrapper, the wrapper's step tensor); every other
\* output is a tensor of the layer's own: the wrapper's output is neither its
\* input, nor the wrapped layer's output, nor its slice or outputCopy, and on
\* the device the wrapped layer's output, written by _callGPU, is not the slice.
C16_OutputOwnedUnlessLinear ==
    (calls > 0 /\ err = "") =>
        /\ IsActivation => ((act.output = x) <=> (act.activation = "linear"))
        /\ IsWrapper =>
              /\ td.output \notin {0, x, act.output, td.slice, td.outputCopy}
              /\ act.output \notin {0, x}
              /\ td.gpu => act.output \notin {td.slice, td.outputCopy}
              /\ ~td.gpu => ((act.output = StepTensor) <=> (act.activation = "linear"))

\* A CPU wrapper of a linear layer after a call: the wrapped layer's output
\* is the step tensor it was called with, the wrapper's output another tensor.
C16_Witness ==
    /\ IsWrapper
    /\ ~td.gpu
    /\ err = ""
    /\ act.activation = "linear"
    /\ act.output = StepTensor
    /\ td.output > StepTensor

----------------------------------------------------------------------------
\* The layout of the slice for an input of rank above 2.

\* The slice is square-reshaped, with a texture of the shape of the input
\* index maps' textures; the wrapped layer's output is square-reshaped with
\* its original shape and its index map.
SliceLayoutFits ==
    /\ td.slice # 0 =>
          /\ tensors[td.slice].is2DReshaped
          /\ \A id \in Range(td.rowIndexMaps.at) \cup Range(td.colIndexMaps.at) :
                tensors[id].glTextureShape = tensors[td.slice].glTextureShape
    /\ td.sliceOutput # 0 =>
          /\ tensors[td.sliceOutput].is2DReshaped
          /\ tensors[td.sliceOutput].originalShape = Tail(td.inputShape)
          /\ tensors[td.sliceOutput].indicesForReshaped # NoIndices

\* The first call of a device wrapper, on an input whose slices have one of
\* the given ranks.
FirstDeviceCallOfSliceRank(ranks) ==
    /\ IsWrapper
    /\ td.gpu
    /\ calls = 1
    /\ Len(td.inputShape) > 2
    /\ Len(td.inputShape) - 1 \in ranks

\* C17: in the first device call of a wrapper on an input of rank above 2,
\* the call that creates the output, the slice is square-reshaped like the
\* input index maps that drive the gather into it, and the wrapped layer's
\* slice output is square-reshaped with its original shape and index map, for
\* slices of every rank from 2 on; and the call creates the output.
C17_SliceSquareReshaped ==
    FirstDeviceCallOfSliceRank({2, 3}) => (SliceLayoutFits /\ err = "" /\ td.output # 0)

\* A device wrapper after its first call, on an input of rank 3: the slice
\* has the native 1 x 2 texture, its index maps 2 x 2 ones, the wrapped
\* layer's output no original shape, and the output's creation threw.
C17_NativeSlice ==
    /\ FirstDeviceCallOfSliceRank({2})
    /\ Tail(td.inputShape) = <<1, 2>>
    /\ ~tensors[td.slice].is2DReshaped
    /\ tensors[td.slice].glTextureShape = <<1, 2>>
    /\ tensors[td.rowIndexMaps.at[1]].glTextureShape = <<2, 2>>
    /\ tensors[td.sliceOutput].originalShape = <<>>
    /\ td.output = 0
    /\ err = "TypeError: this.sliceOutput.originalShape is not iterable"

\* What of C17 the code keeps: the layouts fit for slices of rank 3.
SliceLayoutFitsFromRank3 ==
    FirstDeviceCallOfSliceRank({3}) => (SliceLayoutFits /\ err = "" /\ td.output # 0)

----------------------------------------------------------------------------
\* The index maps and the timesteps of a call.

\* The last call is a device call of a wrapper on an input of rank 4 (slices
\* of rank 3), and so were the calls before it.
DeviceCallOnRank4 ==
    /\ IsWrapper
    /\ td.gpu
    /\ Len(td.inputShape) = 4
    /\ \A shape \in shapes : Len(shape) = 4

\* Every timestep of the last call has its input and its output index-map
\* pair, and the slice and the output are those of the input's shape.
MapsCoverCall ==
    /\ err = ""
    /\ Len(td.rowIndexMaps.at) >= td.inputShape[1]
    /\ Len(td.colIndexMaps.at) >= td.inputShape[1]
    /\ Len(td.outputRowIndexMaps.at) >= td.inputShape[1]
    /\ Len(td.outputColIndexMaps.at) >= td.inputShape[1]
    /\ OutputFitsInput
    /\ LogicalShape(tensors[td.outputCopy]) = td.inputShape

\* C18: in every device call of a wrapper on inputs of rank above 2, the
\* first and the later ones, whatever the number T of timesteps of the call's
\* input, the index-map collections have at least T pairs, so that the gather
\* and the write of every timestep find theirs, and the slice, output and
\* outputCopy the wrapper holds have the shapes of the call's input.
C18_MapsCoverEveryCall ==
    DeviceCallOnRank4 => MapsCoverCall

\* A device wrapper whose first call had one timestep, after a second call
\* with MaxT timesteps: one pair of index maps, and the gather of timestep 1
\* threw.
C18_ShortMaps ==
    /\ DeviceCallOnRank4
    /\ calls = 2
    /\ shapes = {<<1, 1, 1, 2>>}
    /\ td.inputShape = <<MaxT, 1, 1, 2>>
    /\ Len(td.rowIndexMaps.at) = 1
    /\ td.outputShape = <<1, 1, 1, 2>>
    /\ err = "TypeError: Cannot read property 'glTexture' of undefined"

\* What of C18 the code keeps: the maps cover the call that creates them and
\* every later call with an input of that shape.
MapsCoverSameShape ==
    (DeviceCallOnRank4 /\ (pre.td.output = 0 \/ pre.td.outputShape = td.inputShape))
        => MapsCoverCall

\* A second call with fewer timesteps than the first returns, but gathers
\* with the first call's maps: the output is not the wrapped layer's result.
FewerTimestepsMisread ==
    /\ DeviceCallOnRank4
    /\ calls = 2
    /\ err = ""
    /\ td.outbound = 0
    /\ td.inputShape[1] < td.outputShape[1]
    /\ \E t \in 0..(td.inputShape[1] - 1) :
          Pick(Data(State, td.output), td.outputShape, t) # InnerResult(t)

----------------------------------------------------------------------------
\* A linear layer wrapped on the device.

\* The program runs of the last call that the wrapped Activation issued.
InnerRuns == {i \in Runs : log[i].layer = "Activation"}

\* C19: in a device call of a wrapper of a linear Activation, no invocation
\* of the wrapped layer runs a program or creates a texture for it: the slice
\* output the wrapper consumes is the slice itself.
C19_LinearInnerIsNoOp ==
    (IsWrapper /\ td.gpu /\ act.activation = "linear" /\ calls > 0 /\ err = "") =>
        /\ InnerRuns = {}
        /\ td.sliceOutput = td.slice
        /\ \A i \in DOMAIN log :
              ~(log[i].op = "createGLTexture" /\ log[i].layer = "Activation")

\* A device wrapper of a linear Activation after its first call over MaxT
\* timesteps: the wrapped layer ran the linear program once per timestep, from
\* the slice's texture into an output of its own, which it created.
C19_LinearProgramRuns ==
    /\ IsWrapper
    /\ td.gpu
    /\ act.activation = "linear"
    /\ calls = 1
    /\ err = ""
    /\ td.inputShape[1] = MaxT
    /\ Cardinality(InnerRuns) = MaxT
    /\ \A i \in InnerRuns :
          /\ log[i].program = "linear"
          /\ log[i].output = act.output
          /\ log[i].inputs = <<tensors[td.slice].glTexture>>
    /\ td.sliceOutput = act.output
    /\ act.output # td.slice
    /\ \E i \in DOMAIN log :
          /\ log[i].op = "createGLTexture"
          /\ log[i].layer = "Activation"
          /\ log[i].output = act.output

\* What of C19 the code keeps: the slice output of a linear wrapped layer
\* holds the slice's values.
LinearInnerCopiesSlice ==
    (IsWrapper /\ td.gpu /\ act.activation = "linear" /\ err = "") =>
        TextureData(State, td.sliceOutput) = TextureData(State, td.slice)

====
